---- MODULE Spec2Model ----
(***************************************************************************)
(* Model of src/src/creation.rs: the VM-creation wizard `Creation`, its   *)
(* `update` message handler and the `OptionSelection::refresh` cascade    *)
(* that keeps release / edition / arch and their choice lists in step.    *)
(*                                                                         *)
(* Rust Option<T> is modelled as a sequence: None is <<>>, Some(x) is      *)
(* <<x>>.  Vec<T> and combo_box::State<T> (an owned list of options) are   *)
(* sequences.  Arch values and strings are TLA+ strings.                   *)
(***************************************************************************)
EXTENDS Integers, Sequences, FiniteSets, TLC

\* os_list, page, options: the fields of Creation; ARCH: the arch of the
\* build; picker: file-chooser requests in flight; panicked: a request's task
\* has panicked
VARIABLES os_list, page, options, ARCH, picker, panicked

vars == <<os_list, page, options, ARCH, picker, panicked>>

----------------------------------------------------------------------------
(* Option<T> *)

None == <<>>

Some(x) == <<x>>

IsSome(o) == o # <<>>

----------------------------------------------------------------------------
(* Bounds of the model *)

\* number of operating systems of the catalog a run may select
NumOS == 4

\* SetCPUCores payloads are 1..MaxCores
MaxCores == 2

\* SetRAM payloads are 1..MaxRam (GiB)
MaxRam == 2

\* directories are 0..MaxDir, 0 being the process's current directory
MaxDir == 1

\* directory-picker requests in flight
MaxPending == 1

----------------------------------------------------------------------------
(* Data: quickemu::config::Arch, quickget_core Config and OS *)

ArchOrder == <<"x86_64", "aarch64", "riscv64">>

Archs == {ArchOrder[i] : i \in 1..Len(ArchOrder)}

Config(r, e, a) == [release |-> r, edition |-> e, arch |-> a]

OS(n, rs) == [pretty_name |-> n, releases |-> rs]

\* The catalog the OS list is loaded from: Vec<OS>, each with its Vec<Config>.
Catalog ==
  << OS("alpine",
        << Config(Some("3.18"), None, "x86_64"),
           Config(Some("3.18"), None, "aarch64"),
           Config(Some("edge"), None, "x86_64") >>),
     OS("fedora",
        << Config(Some("40"), Some("kde"), "x86_64"),
           Config(Some("40"), Some("xfce"), "x86_64"),
           Config(Some("41"), Some("xfce"), "aarch64"),
           Config(Some("41"), Some("kde"), "x86_64") >>),
     OS("custom",
        << Config(None, None, "x86_64"),
           Config(None, Some("kde"), "aarch64"),
           Config(Some("40"), Some("kde"), "aarch64"),
           Config(Some("40"), None, "riscv64") >>),
     OS("void",
        << Config(Some("edge"), None, "riscv64"),
           Config(Some("3.18"), None, "aarch64"),
           Config(Some("edge"), None, "aarch64"),
           Config(Some("edge"), None, "x86_64") >>),
     OS("empty", << >>),
     OS("nixos",
        << Config(Some("41"), Some("kde"), "riscv64"),
           Config(None, Some("xfce"), "riscv64") >>) >>

OSes == {Catalog[i] : i \in 1..NumOS}

Range(s) == {s[i] : i \in 1..Len(s)}

AllConfigs == UNION {Range(os.releases) : os \in OSes}

\* payloads of SelectedRelease / SelectedEdition: the strings of the catalog
ReleaseNames == {c.release[1] : c \in {d \in AllConfigs : IsSome(d.release)}}

EditionNames == {c.edition[1] : c \in {d \in AllConfigs : IsSome(d.edition)}}

ErrorTexts == {"offline", "bad json"}

Cores == 1..MaxCores

Rams == 1..MaxRam

Dirs == 0..MaxDir

----------------------------------------------------------------------------
(* Iterator adaptors used by the code *)

\* slice::contains
Contains(s, x) == \E i \in 1..Len(s) : s[i] = x

\* Iterator::filter_map over an Option-valued field: drops None, unwraps Some
RECURSIVE FilterMap(_)
FilterMap(s) ==
  IF s = <<>> THEN <<>>
  ELSE IF IsSome(Head(s)) THEN <<Head(s)[1]>> \o FilterMap(Tail(s))
       ELSE FilterMap(Tail(s))

\* itertools::Itertools::unique: keeps the first occurrence of each element
RECURSIVE UniqueFrom(_, _)
UniqueFrom(s, seen) ==
  IF s = <<>> THEN <<>>
  ELSE IF Head(s) \in seen THEN UniqueFrom(Tail(s), seen)
       ELSE <<Head(s)>> \o UniqueFrom(Tail(s), seen \cup {Head(s)})

Unique(s) == UniqueFrom(s, {})

\* Iterator::map over a field of the records
MapField(s, f) == [i \in 1..Len(s) |-> s[i][f]]

----------------------------------------------------------------------------
(* OptionSelection::refresh, statement by statement.  `self` is the        *)
(* OptionSelection record; each step reads the fields as the statements    *)
(* before it left them.                                                    *)

\* refresh_releases without the arch filter of lines 66-69
refresh_releases_IgnoresArch(self) ==
  Unique(FilterMap(MapField(
    SelectSeq(self.config_list,
              LAMBDA config : self.edition = None \/ config.edition = self.edition),
    "release")))

\* lines 66-74: the releases of the records matching self.arch and self.edition
refresh_releases(self) ==
  Unique(FilterMap(MapField(
    SelectSeq(
      SelectSeq(self.config_list,
                LAMBDA config : IF IsSome(self.arch) THEN config.arch = self.arch[1]
                                ELSE TRUE),
      LAMBDA config : self.edition = None \/ config.edition = self.edition),
    "release")))

\* refresh_release without the eviction of lines 76-80
refresh_release_keeps(self) ==
  [self EXCEPT !.release_list = refresh_releases(self)]

\* refresh_release checking the release against the list stored by the pass
\* before, not against the releases it has just computed
refresh_release_ChecksStoredList(self) ==
  [self EXCEPT
     !.release = IF IsSome(self.release)
                    /\ ~Contains(self.release_list, self.release[1])
                 THEN None ELSE self.release,
     !.release_list = refresh_releases(self)]

\* lines 76-81: clear a release that is not among them, store the list
refresh_release(self) ==
  LET releases == refresh_releases(self)
  IN  [self EXCEPT
         !.release = IF IsSome(self.release) /\ ~Contains(releases, self.release[1])
                     THEN None ELSE self.release,
         !.release_list = releases]

\* refresh_editions without the emptiness test of line 93
refresh_editions_KeepsEmpty(self) ==
  IF self.release = None THEN None
  ELSE Some(Unique(FilterMap(MapField(
         SelectSeq(
           SelectSeq(self.config_list,
                     LAMBDA config : IF IsSome(self.arch) THEN config.arch = self.arch[1]
                                     ELSE TRUE),
           LAMBDA config : self.release = config.release),
         "edition"))))

\* lines 83-94: self.release.as_ref().and(<non-empty editions of the records
\* matching self.arch and self.release>); Option::and gives None when
\* self.release is None, whatever its argument
refresh_editions(self) ==
  LET editions ==
        Unique(FilterMap(MapField(
          SelectSeq(
            SelectSeq(self.config_list,
                      LAMBDA config : IF IsSome(self.arch) THEN config.arch = self.arch[1]
                                      ELSE TRUE),
            LAMBDA config : self.release = config.release),
          "edition")))
  IN  IF self.release = None THEN None
      ELSE IF editions # <<>> THEN Some(editions) ELSE None

\* lines 95-104: clear an edition that is not among them (or when there is
\* no list), store the list
refresh_edition(self) ==
  LET editions == refresh_editions(self)
  IN  [self EXCEPT
         !.edition = IF IsSome(self.edition)
                     THEN IF IsSome(editions)
                          THEN IF ~Contains(editions[1], self.edition[1])
                               THEN None ELSE self.edition
                          ELSE None
                     ELSE self.edition,
         !.edition_list = editions]

\* refresh_arch_list in the order of the records, without the fixed order of
\* lines 114-116
refresh_arch_list_RecordOrder(self) ==
  Unique(MapField(
    SelectSeq(
      SelectSeq(self.config_list,
                LAMBDA config : self.release = None \/ config.release = self.release),
      LAMBDA config : self.edition = None \/ config.edition = self.edition),
    "arch"))

\* lines 106-117: the fixed arch order, filtered to the archs of the records
\* matching self.release and self.edition
refresh_arch_list(self) ==
  LET full_arch_list ==
        MapField(
          SelectSeq(
            SelectSeq(self.config_list,
                      LAMBDA config : self.release = None \/ config.release = self.release),
            LAMBDA config : self.edition = None \/ config.edition = self.edition),
          "arch")
  IN  SelectSeq(ArchOrder, LAMBDA arch : Contains(full_arch_list, arch))

\* lines 118-123: clear an arch that is not among them, store the list
refresh_arch(self) ==
  LET arch_list == refresh_arch_list(self)
  IN  [self EXCEPT
         !.arch = IF IsSome(self.arch) /\ ~Contains(arch_list, self.arch[1])
                  THEN None ELSE self.arch,
         !.arch_list = arch_list]

\* refresh storing arch_list before the edition is checked
refresh_ArchBeforeEdition(self) ==
  refresh_edition(refresh_arch(refresh_release(self)))

\* lines 65-124: the three steps in the order of the code
refresh(self) == refresh_arch(refresh_edition(refresh_release(self)))

set_release(self, release) == refresh([self EXCEPT !.release = Some(release)])

set_edition(self, edition) == refresh([self EXCEPT !.edition = Some(edition)])

\* set_arch without the refresh of line 135
set_arch_NoRefresh(self, arch) == [self EXCEPT !.arch = Some(arch)]

set_arch(self, arch) == refresh([self EXCEPT !.arch = Some(arch)])

----------------------------------------------------------------------------
(* Host queries read when an OS is selected *)

\* std::env::consts::ARCH of the build, one per arm of the match of lines
\* 172-176 ("x86_64" takes the catch-all arm, as every other target does)
HostArchs == {"x86_64", "aarch64", "riscv64"}

\* QuickgetInstance::get_recommended_ram() in GiB
get_recommended_ram == 1

\* QuickgetInstance::get_recommended_cpu_cores()
get_recommended_cpu_cores == 1

\* std::env::current_dir()
current_dir == 0

----------------------------------------------------------------------------
(* Creation *)

Page(tag) == <<tag>>

PageError(e) == <<"Error", e>>

\* Creation::new
new == [os_list |-> <<>>, page |-> Page("Loading"), options |-> None]

Msg(k, v) == [kind |-> k, val |-> v]

\* lines 172-176
preferred_arch ==
  CASE ARCH = "aarch64" -> "aarch64"
    [] ARCH = "riscv64" -> "riscv64"
    [] OTHER -> "x86_64"

\* lines 159-195: the OptionSelection built for a newly selected OS
NewOptionSelection(os) ==
  LET release_list == Unique(FilterMap(MapField(os.releases, "release")))
      arch_list == SelectSeq(ArchOrder,
                     LAMBDA arch : \E i \in 1..Len(os.releases) :
                                      os.releases[i].arch = arch)
      arch == IF Contains(arch_list, preferred_arch) THEN Some(preferred_arch) ELSE None
  IN  [config_list |-> os.releases,
       release |-> None,
       release_list |-> release_list,
       edition |-> None,
       edition_list |-> None,
       arch |-> arch,
       arch_list |-> arch_list,
       ram |-> get_recommended_ram,
       cpu_cores |-> get_recommended_cpu_cores,
       directory |-> current_dir]

\* SelectedOS preselecting the preferred arch without the check of line 177
SelectedOSArm_AnyArch(self, os) ==
  [self EXCEPT !.options = Some([NewOptionSelection(os) EXCEPT
                                   !.arch = Some(preferred_arch)]),
               !.page = Page("Options")]

\* SelectedOS keeping the release picked for the previous OS
SelectedOSArm_KeepsRelease(self, os) ==
  [self EXCEPT !.options =
     Some([NewOptionSelection(os) EXCEPT
             !.release = IF IsSome(self.options) THEN self.options[1].release
                         ELSE None]),
               !.page = Page("Options")]

\* SelectedOS keeping the directory set before
SelectedOSArm_KeepsDirectory(self, os) ==
  [self EXCEPT !.options =
     Some([NewOptionSelection(os) EXCEPT
             !.directory = IF IsSome(self.options) THEN self.options[1].directory
                           ELSE current_dir]),
               !.page = Page("Options")]

\* lines 158-197
SelectedOSArm(self, os) ==
  [self EXCEPT !.options = Some(NewOptionSelection(os)),
               !.page = Page("Options")]

\* lines 213-217
SetRAMArm(self, input_ram) ==
  IF IsSome(self.options)
  THEN [self EXCEPT !.options = Some([self.options[1] EXCEPT !.ram = input_ram])]
  ELSE self

\* SetCPUCores storing its payload in the wrong field
SetCPUCoresArm_WritesRam(self, input_cores) ==
  IF IsSome(self.options)
  THEN [self EXCEPT !.options = Some([self.options[1] EXCEPT !.ram = input_cores])]
  ELSE self

\* lines 218-222
SetCPUCoresArm(self, input_cores) ==
  IF IsSome(self.options)
  THEN [self EXCEPT !.options = Some([self.options[1] EXCEPT !.cpu_cores = input_cores])]
  ELSE self

\* lines 254-263
SelectedDirArm(self, selected_directory) ==
  IF IsSome(self.options)
  THEN [self EXCEPT !.options =
          Some([self.options[1] EXCEPT !.directory = selected_directory])]
  ELSE self

\* the OSList(Ok) arm also dropping the selection
OSListArm_DropsOptions(self, list) ==
  [self EXCEPT !.os_list = list, !.page = Page("SelectOS"), !.options = None]

\* lines 149-153: store the catalog and show the OS list
OSListArm(self, list) ==
  [self EXCEPT !.os_list = list, !.page = Page("SelectOS")]

\* Creation::update: the state after handling `message`; the handlers of
\* lines 198-222 and 254-263 act only `if let Some(options) = &mut self.options`
update(self, message) ==
  CASE message.kind = "OSListOk" -> OSListArm(self, message.val)
    [] message.kind = "OSListErr" ->
         [self EXCEPT !.page = PageError(message.val)]
    [] message.kind = "SelectedOS" -> SelectedOSArm(self, message.val)
    [] message.kind = "SelectedRelease" ->
         IF IsSome(self.options)
         THEN [self EXCEPT !.options = Some(set_release(self.options[1], message.val))]
         ELSE self
    [] message.kind = "SelectedEdition" ->
         IF IsSome(self.options)
         THEN [self EXCEPT !.options = Some(set_edition(self.options[1], message.val))]
         ELSE self
    [] message.kind = "SelectedArch" ->
         IF IsSome(self.options)
         THEN [self EXCEPT !.options = Some(set_arch(self.options[1], message.val))]
         ELSE self
    [] message.kind = "SetRAM" -> SetRAMArm(self, message.val)
    [] message.kind = "SetCPUCores" -> SetCPUCoresArm(self, message.val)
    [] message.kind = "SelectVMDir" -> self
    [] message.kind = "SelectedDir" -> SelectedDirArm(self, message.val)
    [] message.kind = "None" -> self

----------------------------------------------------------------------------
(* The state machine: one action per Message variant handled by update *)

Self == [os_list |-> os_list, page |-> page, options |-> options]

\* update(message) is called on the controller; nothing is followed after a
\* panic
Handle(message) ==
  /\ ~panicked
  /\ \E next \in {update(Self, message)} :
       /\ os_list' = next.os_list
       /\ page' = next.page
       /\ options' = next.options
  /\ UNCHANGED <<ARCH, panicked>>

Init ==
  /\ os_list = new.os_list
  /\ page = new.page
  /\ options = new.options
  /\ ARCH \in HostArchs
  /\ picker = 0
  /\ panicked = FALSE

OSListOk ==
  \E list \in {SubSeq(Catalog, 1, NumOS)} :
    Handle(Msg("OSListOk", list)) /\ UNCHANGED picker

OSListErr ==
  \E e \in ErrorTexts : Handle(Msg("OSListErr", e)) /\ UNCHANGED picker

SelectedOS ==
  \E os \in OSes : Handle(Msg("SelectedOS", os)) /\ UNCHANGED picker

SelectedRelease ==
  \E release \in ReleaseNames :
    Handle(Msg("SelectedRelease", release)) /\ UNCHANGED picker

SelectedEdition ==
  \E edition \in EditionNames :
    Handle(Msg("SelectedEdition", edition)) /\ UNCHANGED picker

SelectedArch ==
  \E arch \in Archs : Handle(Msg("SelectedArch", arch)) /\ UNCHANGED picker

SetRAM ==
  \E input_ram \in Rams : Handle(Msg("SetRAM", input_ram)) /\ UNCHANGED picker

SetCPUCores ==
  \E input_cores \in Cores :
    Handle(Msg("SetCPUCores", input_cores)) /\ UNCHANGED picker

\* lines 223-253: the handler only starts the file-chooser request
SelectVMDir ==
  /\ picker < MaxPending
  /\ Handle(Msg("SelectVMDir", None))
  /\ picker' = picker + 1

\* line 364: the directory text input
SelectedDir ==
  \E selected_directory \in Dirs :
    Handle(Msg("SelectedDir", selected_directory)) /\ UNCHANGED picker

\* lines 245-247: the request ends with a directory
PickerSelected ==
  /\ picker > 0
  /\ picker' = picker - 1
  /\ \E directory \in Dirs : Handle(Msg("SelectedDir", directory))

\* lines 248-250: the request ends without one
PickerNone ==
  /\ picker > 0
  /\ picker' = picker - 1
  /\ Handle(Msg("None", None))

\* line 234: `.send().await.unwrap()` panics in the request's task when the
\* request cannot be sent.  Whether the process ends there or only the task
\* (no message is then delivered, which leaves the state PickerNone leads to)
\* depends on the build; the model records the panic and stops there, the
\* other requests in flight are not followed either.
PickerSendFailed ==
  /\ picker > 0
  /\ ~panicked
  /\ picker' = 0
  /\ panicked' = TRUE
  /\ UNCHANGED <<os_list, page, options, ARCH>>

Next ==
  \/ OSListOk
  \/ OSListErr
  \/ SelectedOS
  \/ SelectedRelease
  \/ SelectedEdition
  \/ SelectedArch
  \/ SetRAM
  \/ SetCPUCores
  \/ SelectVMDir
  \/ SelectedDir
  \/ PickerSelected
  \/ PickerNone
  \/ PickerSendFailed

Spec == Init /\ [][Next]_vars

----------------------------------------------------------------------------
(* The catalog queries of the specification (section 4.1), over the        *)
(* records `configs` of the active OS; an unset (None) field imposes no    *)
(* constraint.                                                             *)

releases_for(configs, arch, edition) ==
  Unique(FilterMap(MapField(
    SelectSeq(configs,
              LAMBDA c : /\ (arch = None \/ c.arch = arch[1])
                         /\ (edition = None \/ c.edition = edition)),
    "release")))

editions_for(configs, arch, release) ==
  LET found == Unique(FilterMap(MapField(
                 SelectSeq(configs,
                           LAMBDA c : /\ (arch = None \/ c.arch = arch[1])
                                      /\ (release = None \/ c.release = release)),
                 "edition")))
  IN  IF found = <<>> THEN None ELSE Some(found)

archs_for(configs, release, edition) ==
  LET present == {c.arch : c \in {d \in Range(configs) :
                                    /\ (release = None \/ d.release = release)
                                    /\ (edition = None \/ d.edition = edition)}}
  IN  SelectSeq(ArchOrder, LAMBDA a : a \in present)

----------------------------------------------------------------------------
(* Claims *)

\* C1: in every state reached by OS / release / edition / arch picks, a set
\* release is a member of release_list, a set edition has an edition_list
\* that contains it, and a set arch is a member of arch_list.
C1_SelectionsListed ==
  IsSome(options) =>
    LET o == options[1]
    IN  /\ IsSome(o.release) => Contains(o.release_list, o.release[1])
        /\ IsSome(o.edition) =>
             IsSome(o.edition_list) /\ Contains(o.edition_list[1], o.edition[1])
        /\ IsSome(o.arch) => Contains(o.arch_list, o.arch[1])

\* a state in which picks have set all three fields
C1_Witness ==
  /\ IsSome(options)
  /\ IsSome(options[1].release)
  /\ IsSome(options[1].edition)
  /\ IsSome(options[1].arch)

\* C2: whenever a SelectionState exists, each choice list equals the catalog
\* query over the current values of the other two fields.
C2_ListsFollowFields ==
  IsSome(options) =>
    LET o == options[1]
    IN  /\ o.release_list = releases_for(o.config_list, o.arch, o.edition)
        /\ o.edition_list = editions_for(o.config_list, o.arch, o.release)
        /\ o.arch_list = archs_for(o.config_list, o.release, o.edition)

\* the release / edition / arch picks update can be handed
PickMessages ==
  {Msg("SelectedRelease", r) : r \in ReleaseNames}
    \cup {Msg("SelectedEdition", e) : e \in EditionNames}
    \cup {Msg("SelectedArch", a) : a \in Archs}

\* the pick's value is one of the options the combo box of its field shows
Listed(self, message) ==
  /\ IsSome(self.options)
  /\ CASE message.kind = "SelectedRelease" ->
            Contains(self.options[1].release_list, message.val)
       [] message.kind = "SelectedEdition" ->
            /\ IsSome(self.options[1].edition_list)
            /\ Contains(self.options[1].edition_list[1], message.val)
       [] message.kind = "SelectedArch" ->
            Contains(self.options[1].arch_list, message.val)

\* the field a pick assigns
PickedField(o, message) ==
  CASE message.kind = "SelectedRelease" -> o.release
    [] message.kind = "SelectedEdition" -> o.edition
    [] message.kind = "SelectedArch" -> o.arch

\* C3: refresh is idempotent: in the state a release / edition / arch pick
\* leaves behind, running refresh once more changes nothing.
C3_RefreshIdempotent ==
  [][\A m \in PickMessages :
       (IsSome(options) /\ Self' = update(Self, m))
         => refresh(options'[1]) = options'[1]]_vars

\* C4: a pick whose value is drawn from its field's current choice list
\* leaves that field holding the picked value.
C4_PickedFieldKept ==
  [][\A m \in PickMessages :
       (Listed(Self, m) /\ Self' = update(Self, m))
         => PickedField(options'[1], m) = Some(m.val)]_vars

\* the controller after update(message), seen from the current state
After(message) == update(Self, message)

\* the arch SelectedOS preselects on this build: the host's, x86_64 on any
\* other target
HostArch == IF ARCH \in {"aarch64", "riscv64"} THEN ARCH ELSE "x86_64"

LeafMessages ==
  {Msg("SetRAM", r) : r \in Rams}
    \cup {Msg("SetCPUCores", c) : c \in Cores}
    \cup {Msg("SelectedDir", d) : d \in Dirs}

\* every message but SelectedOS
OtherMessages ==
  PickMessages
    \cup {Msg("OSListOk", SubSeq(Catalog, 1, NumOS))}
    \cup {Msg("OSListErr", e) : e \in ErrorTexts}
    \cup LeafMessages
    \cup {Msg("SelectVMDir", None), Msg("None", None)}

\* the strings and archs of a record list
ReleasesOf(configs) == {c.release[1] : c \in {d \in Range(configs) : IsSome(d.release)}}

EditionsOf(configs) == {c.edition[1] : c \in {d \in Range(configs) : IsSome(d.edition)}}

ArchsOf(configs) == {c.arch : c \in Range(configs)}

\* C6: no carry-over across OS changes: whatever preceded it, selecting an
\* OS gives the SelectionState it gives on a new controller; no other
\* message replaces the active records; the values and the lists hold
\* nothing but what the active records hold.
C6_NoCarryOver ==
  /\ \A os \in OSes :
       After(Msg("SelectedOS", os)).options = update(new, Msg("SelectedOS", os)).options
  /\ IsSome(options) =>
       /\ \A m \in OtherMessages :
            After(m).options[1].config_list = options[1].config_list
       /\ Range(options[1].release) \cup Range(options[1].release_list)
            \subseteq ReleasesOf(options[1].config_list)
       /\ Range(options[1].edition) \subseteq EditionsOf(options[1].config_list)
       /\ IsSome(options[1].edition_list) =>
            Range(options[1].edition_list[1]) \subseteq EditionsOf(options[1].config_list)
       /\ Range(options[1].arch) \cup Range(options[1].arch_list)
            \subseteq ArchsOf(options[1].config_list)

\* picks on one OS have set release and edition, the directory was changed,
\* and another OS, with other releases, can be selected
C6_Witness ==
  /\ IsSome(options)
  /\ IsSome(options[1].release)
  /\ IsSome(options[1].edition)
  /\ options[1].directory # current_dir
  /\ \E os \in OSes :
       /\ options[1].release[1] \notin ReleasesOf(os.releases)
       /\ After(Msg("SelectedOS", os)).options[1].release_list # <<>>

\* C7: history independence: on one OS, two sequences of picks that end with
\* the same release, edition and arch end with the same three lists; here
\* the two sequences are the events up to a state and the same events
\* followed by one more.
C7_HistoryIndependent ==
  [][(/\ IsSome(options)
      /\ IsSome(options')
      /\ options'[1].config_list = options[1].config_list
      /\ options'[1].release = options[1].release
      /\ options'[1].edition = options[1].edition
      /\ options'[1].arch = options[1].arch)
       => /\ options'[1].release_list = options[1].release_list
          /\ options'[1].edition_list = options[1].edition_list
          /\ options'[1].arch_list = options[1].arch_list]_vars

\* the records matching the current arch and release expose no edition
NoEditionExposed(o) ==
  \A c \in Range(o.config_list) :
    ((o.arch = None \/ c.arch = o.arch[1]) /\ (o.release = None \/ c.release = o.release))
      => c.edition = None

\* C8: edition_list is absent or a non-empty list, and it is absent when
\* the records matching the current arch and release expose no edition.
C8_AbsentNotEmpty ==
  IsSome(options) =>
    /\ IsSome(options[1].edition_list) => options[1].edition_list[1] # <<>>
    /\ NoEditionExposed(options[1]) => options[1].edition_list = None

\* a release is picked whose records (for the current arch) have no edition,
\* on an OS that has editions elsewhere
C8_Witness ==
  /\ IsSome(options)
  /\ IsSome(options[1].release)
  /\ NoEditionExposed(options[1])
  /\ EditionsOf(options[1].config_list) # {}
  /\ options[1].edition_list = None

\* C9 (as stated): a directory that has been set survives the selection of
\* an OS.
C9_DirectorySurvives ==
  [][\A os \in OSes :
       (IsSome(options) /\ Self' = update(Self, Msg("SelectedOS", os)))
         => options'[1].directory = options[1].directory]_vars

\* C9 (amended): selecting an OS sets the directory to the process's current
\* directory, whatever directory was set before.
C9_DirectoryReset ==
  \A os \in OSes : After(Msg("SelectedOS", os)).options[1].directory = current_dir

\* a directory other than the current one has been set
C9_Witness ==
  /\ IsSome(options)
  /\ options[1].directory # current_dir
  /\ \E os \in OSes : After(Msg("SelectedOS", os)).options[1] # options[1]

\* the three leaf fields
Leaves(o) == <<o.cpu_cores, o.ram, o.directory>>

\* C10: a release / edition / arch pick changes none of cpu_cores, ram and
\* directory; SetRAM, SetCPUCores and SelectedDir assign their one field and
\* leave everything else as it was (and do nothing without a SelectionState).
C10_LeavesIndependent ==
  /\ IsSome(options) =>
       /\ \A m \in PickMessages : Leaves(After(m).options[1]) = Leaves(options[1])
       /\ \A r \in Rams :
            After(Msg("SetRAM", r)) = [Self EXCEPT !.options[1].ram = r]
       /\ \A c \in Cores :
            After(Msg("SetCPUCores", c)) = [Self EXCEPT !.options[1].cpu_cores = c]
       /\ \A d \in Dirs :
            After(Msg("SelectedDir", d)) = [Self EXCEPT !.options[1].directory = d]
  /\ options = None =>
       \A m \in PickMessages \cup LeafMessages : After(m) = Self

\* the three leaf fields have been set to other values than their defaults,
\* the three selections are set, and some pick changes the selection
C10_Witness ==
  /\ IsSome(options)
  /\ IsSome(options[1].release)
  /\ IsSome(options[1].edition)
  /\ IsSome(options[1].arch)
  /\ options[1].ram # get_recommended_ram
  /\ options[1].cpu_cores # get_recommended_cpu_cores
  /\ options[1].directory # current_dir
  /\ \E m \in PickMessages : After(m).options[1] # options[1]

----------------------------------------------------------------------------
(* C11: the directory picker *)

\* C11: a directory request that is cancelled or fails is a no-op: handling
\* SelectVMDir changes nothing before a result arrives, the Message::None a
\* cancelled request ends with changes nothing, and a failed request does not
\* crash
C11_PickerFailureIsNoOp ==
  /\ After(Msg("SelectVMDir", None)) = Self
  /\ After(Msg("None", None)) = Self
  /\ ~panicked

----------------------------------------------------------------------------
(* C12: the Error page *)

\* C12: handling OSList(Err(e)) leaves page = Error(e) with the text as it
\* came, and once the page is an Error page no later step changes it
C12_ErrorIsTerminal ==
  [][ /\ \A e \in ErrorTexts : After(Msg("OSListErr", e)).page = PageError(e)
      /\ page[1] = "Error" => page' = page ]_vars

----------------------------------------------------------------------------
(* C13: the Alpine scenario; alpine is the first OS of the catalog *)

\* C13: selecting alpine gives release_list [3.18, edge], arch_list
\* [x86_64, aarch64] and no edition_list; picking aarch64 while on alpine
\* then gives release_list [3.18] and clears a release that was "edge"
C13_AlpineScenario ==
  LET alpine == Catalog[1]
      selected == After(Msg("SelectedOS", alpine)).options[1]
      picked == After(Msg("SelectedArch", "aarch64")).options[1]
  IN  /\ selected.release_list = <<"3.18", "edge">>
      /\ selected.arch_list = <<"x86_64", "aarch64">>
      /\ selected.edition_list = None
      /\ (IsSome(options) /\ options[1].config_list = alpine.releases) =>
           /\ picked.release_list = <<"3.18">>
           /\ options[1].release = Some("edge") => picked.release = None

\* alpine is selected with release "edge", and picking aarch64 clears it
C13_Witness ==
  /\ IsSome(options)
  /\ options[1].config_list = Catalog[1].releases
  /\ options[1].release = Some("edge")
  /\ After(Msg("SelectedArch", "aarch64")).options[1].release = None

----------------------------------------------------------------------------
(* C14: the order of arch_list *)

\* the place of an arch in the fixed order
ArchIndex(arch) == CHOOSE i \in 1..Len(ArchOrder) : ArchOrder[i] = arch

\* C14: arch_list follows the fixed order x86_64, aarch64, riscv64 without
\* duplicates, and holds exactly the archs of the records matching the
\* release and edition selected
C14_ArchListInFixedOrder ==
  IsSome(options) =>
    LET o == options[1]
        matching == {c \in Range(o.config_list) :
                       /\ o.release = None \/ c.release = o.release
                       /\ o.edition = None \/ c.edition = o.edition}
    IN  /\ \A i, j \in 1..Len(o.arch_list) :
             i < j => ArchIndex(o.arch_list[i]) < ArchIndex(o.arch_list[j])
        /\ Range(o.arch_list) = {c.arch : c \in matching}

\* a release is picked on an OS whose records come in another order than the
\* fixed one, and all three archs are listed
C14_Witness ==
  /\ IsSome(options)
  /\ IsSome(options[1].release)
  /\ Len(options[1].arch_list) = 3
  /\ options[1].config_list[1].arch # "x86_64"

----------------------------------------------------------------------------
(* C15: repeated refresh.  set_release / set_edition / set_arch assign the   *)
(* field and run refresh once, so the selection of a state reached by a     *)
(* pick is the result of the first pass.                                     *)

\* C15: two passes of refresh reach a fixed point (a third changes nothing),
\* and the second pass clears no selection that the first one left
C15_TwoPassesSuffice ==
  IsSome(options) =>
    LET first == options[1]
        second == refresh(first)
    IN  /\ refresh(second) = second
        /\ second.release = first.release
        /\ second.edition = first.edition
        /\ second.arch = first.arch

\* a pick has stored a release_list (it is not the full list that SelectedOS
\* builds), and the second pass still changes the selection's lists
C15_Witness ==
  /\ IsSome(options)
  /\ options[1].release_list #
       Unique(FilterMap(MapField(options[1].config_list, "release")))
  /\ refresh(options[1]) # options[1]

----------------------------------------------------------------------------
(* C16: records without a release *)

\* C16: release_list holds only releases that records carry, and while no
\* release is selected the records without one still count: edition_list is
\* present exactly when a record matching the arch has an edition, and then
\* lists the editions of those records; arch_list holds the archs of all
\* records matching the edition
C16_ReleaselessRecordsCount ==
  IsSome(options) =>
    LET o == options[1]
        records == Range(o.config_list)
        onArch == {c \in records : o.arch = None \/ c.arch = o.arch[1]}
        onEdition == {c \in records : o.edition = None \/ c.edition = o.edition}
    IN  /\ \A i \in 1..Len(o.release_list) :
             \E c \in records : c.release = Some(o.release_list[i])
        /\ o.release = None =>
             /\ IsSome(o.edition_list) <=> \E c \in onArch : IsSome(c.edition)
             /\ IsSome(o.edition_list) =>
                  Range(o.edition_list[1]) =
                    {c.edition[1] : c \in {d \in onArch : IsSome(d.edition)}}
             /\ Range(o.arch_list) = {c.arch : c \in onEdition}

----------------------------------------------------------------------------
(* C17: the selections agree with one another *)

\* C17: whenever release and arch are both selected, some record of the OS
\* has that release and that arch, and also the selected edition when one is
\* selected
C17_SelectionsConsistent ==
  (IsSome(options) /\ IsSome(options[1].release) /\ IsSome(options[1].arch)) =>
    \E c \in Range(options[1].config_list) :
      /\ c.release = options[1].release
      /\ c.arch = options[1].arch[1]
      /\ IsSome(options[1].edition) => c.edition = options[1].edition

\* release, edition and arch are all selected on an OS that has records the
\* selection excludes
C17_Witness ==
  /\ IsSome(options)
  /\ IsSome(options[1].release)
  /\ IsSome(options[1].edition)
  /\ IsSome(options[1].arch)
  /\ \E c \in Range(options[1].config_list) :
       c.release # options[1].release /\ c.arch # options[1].arch[1]

----------------------------------------------------------------------------
(* C18: arch_list is computed last *)

\* C18: in every state arch_list is archs_for of the release and edition as
\* they are at the end of the handler, also when the same pass cleared one
C18_ArchListOnFinalValues ==
  IsSome(options) =>
    options[1].arch_list =
      archs_for(options[1].config_list, options[1].release, options[1].edition)

\* a pass has cleared a selection after storing release_list (the list is
\* neither the full one of SelectedOS nor the one of the final values)
C18_Witness ==
  /\ IsSome(options)
  /\ options[1].release = None
  /\ options[1].release_list #
       Unique(FilterMap(MapField(options[1].config_list, "release")))
  /\ options[1].release_list #
       releases_for(options[1].config_list, options[1].arch, options[1].edition)

----------------------------------------------------------------------------
(* C19: the Options page always has its selection *)

\* C19: no step leaves the page at Options without a selection (the unwrap of
\* line 311 finds Some), and no step removes a selection that is present
C19_OptionsPageHasOptions ==
  [][ /\ page' = Page("Options") => IsSome(options')
      /\ IsSome(options) => IsSome(options') ]_vars

\* the Options page is shown with a release picked, and a catalog arriving
\* now keeps the selection
C19_Witness ==
  /\ page = Page("Options")
  /\ IsSome(options)
  /\ IsSome(options[1].release)
  /\ IsSome(After(Msg("OSListOk", SubSeq(Catalog, 1, NumOS))).options)

====
